---- MODULE Spec2Model ----
(***************************************************************************)
(* Verification model of the IS-LM dashboard: the model module             *)
(* (src/models.py: KCParams, kc_equilibrium, kc_locus) and the session     *)
(* state of the Streamlit script (src/app.py: DEFAULTS, inputs, baseline,  *)
(* the keyed widgets, "Capture baseline", "Reset All").                    *)
(*                                                                         *)
(* Numbers.  Python floats and numpy float64 are IEEE-754 binary64: every  *)
(* +, -, * and / returns the exact result rounded to the nearest           *)
(* representable number (ties to even).  The model keeps exactly that      *)
(* structure with a smaller format: a float is <<m, e>>, the number        *)
(* m * 10^e, with at most Prec significant decimal digits, and every       *)
(* operation rounds its exact result to Prec digits, ties to even.  The    *)
(* exponent is unbounded, so overflow to inf and underflow are not         *)
(* modelled.  Decimal radix keeps the literals of the sources (0.6, 0.01,  *)
(* 1e-9, 0.99) exactly representable, as the UI's two-decimal values       *)
(* behave in the claims' examples.                                         *)
(***************************************************************************)
EXTENDS Integers, Sequences, FiniteSets, TLC

\* Significant decimal digits of a model float (binary64 has 53 bits).
Prec == 3

(***************************************************************************)
(* Integer helpers of the float arithmetic.                                *)
(***************************************************************************)
RECURSIVE Pow10(_)
Pow10(k) == IF k <= 0 THEN 1 ELSE 10 * Pow10(k - 1)

RECURSIVE Digits(_)
Digits(n) == IF n <= 0 THEN 0 ELSE 1 + Digits(n \div 10)

AbsInt(n) == IF n < 0 THEN -n ELSE n

SgnInt(n) == IF n < 0 THEN -1 ELSE IF n = 0 THEN 0 ELSE 1

\* The canonical representation of m * 10^e: no trailing zero in m, 0 is <<0, 0>>.
RECURSIVE Norm(_, _)
Norm(m, e) ==
    IF m = 0 THEN <<0, 0>>
    ELSE IF m % 10 = 0 THEN Norm(m \div 10, e + 1)
    ELSE <<m, e>>

\* m * 10^e (plus, when sticky, a nonzero amount below the last digit of m)
\* rounded to Prec significant digits, ties to even.
RoundTo(m, e, sticky) ==
    LET n == AbsInt(m)
        d == Digits(n)
        k == d - Prec
        q == n \div Pow10(k)
        r == n % Pow10(k)
        half == 5 * Pow10(k - 1)
        up == r > half \/ (r = half /\ (sticky \/ q % 2 = 1))
    IN  IF d <= Prec THEN Norm(m, e)
        ELSE Norm(SgnInt(m) * (IF up THEN q + 1 ELSE q), e + k)

\* Position of the leading digit of a nonzero float.
Lead(x) == Digits(AbsInt(x[1])) + x[2]

(***************************************************************************)
(* Float operations: the exact result, rounded.                            *)
(***************************************************************************)
FNeg(x) == <<-x[1], x[2]>>

FAbs(x) == <<AbsInt(x[1]), x[2]>>

\* x + y.  An operand more than Prec + 1 digits below the other cannot
\* change the rounded sum.
FAdd(x, y) ==
    IF x[1] = 0 THEN y
    ELSE IF y[1] = 0 THEN x
    ELSE IF Lead(x) - Lead(y) > Prec + 1 THEN x
    ELSE IF Lead(y) - Lead(x) > Prec + 1 THEN y
    ELSE LET e == IF x[2] < y[2] THEN x[2] ELSE y[2]
         IN  RoundTo(x[1] * Pow10(x[2] - e) + y[1] * Pow10(y[2] - e), e, FALSE)

FSub(x, y) == FAdd(x, FNeg(y))

FMul(x, y) == RoundTo(x[1] * y[1], x[2] + y[2], FALSE)

\* x / y for y # 0: 2*Prec+1 digits of dividend give a quotient of more than
\* Prec digits, the remainder is the sticky part.
FDiv(x, y) ==
    IF x[1] = 0 THEN <<0, 0>>
    ELSE LET k == 2 * Prec + 1 - Digits(AbsInt(x[1]))
             n == AbsInt(x[1]) * Pow10(k)
             q == n \div AbsInt(y[1])
             r == n % AbsInt(y[1])
         IN  RoundTo(SgnInt(x[1]) * SgnInt(y[1]) * q, x[2] - k - y[2], r # 0)

\* x < y: rounding never changes the sign of a difference.
FLt(x, y) == FSub(x, y)[1] < 0

FLe(x, y) == FSub(x, y)[1] <= 0

\* The float written m * 10^e in a source literal.
Lit(m, e) == RoundTo(m, e, FALSE)

(***************************************************************************)
(* src/models.py                                                           *)
(***************************************************************************)
One == Lit(1, 0)

\* The literal 1e-9 of kc_equilibrium and kc_locus.
Eps == Lit(1, -9)

\* What a call does: return a value, or raise.
Return(v) == [exc |-> "none", ret |-> v]

Raise(name) == [exc |-> name, ret |-> <<>>]

\* numpy's value for a division by zero (inf or nan, with a warning, no
\* exception); it is no float of the model.
NonFinite == <<0, 1>>

\* The fields of the dataclass KCParams.
KCParams(a, c, T, G, i, i_max, b0, b1, b2) ==
    [a |-> a, c |-> c, T |-> T, G |-> G, i |-> i, i_max |-> i_max,
     b0 |-> b0, b1 |-> b1, b2 |-> b2]

\* The caller's KCParams and rate grid, and what the two functions returned.
VARIABLES p, i_grid, kc, Y_IS

\* st.session_state of src/app.py: the dicts it refers to (heap), inputs,
\* baseline and the values of the keyed widgets; the KCParams the last script
\* run passed to the model (passed); the interaction that ran last (last);
\* the inputs as they stood at the last capture since the last reset
\* (captured, a history variable).
VARIABLES heap, inputs, baseline, widgets, passed, last, captured

\* The most recent call of a function of src/models.py, with its arguments as
\* passed and as the call left them (call), and some call made before it
\* (earlier, a history variable).
VARIABLES call, earlier

modelVars == <<p, i_grid, kc, Y_IS>>

sessionVars == <<heap, inputs, baseline, widgets, passed, last, captured>>

callVars == <<call, earlier>>

vars ==
    <<p, i_grid, kc, Y_IS, heap, inputs, baseline, widgets, passed, last, captured,
      call, earlier>>

\* kc_equilibrium keeping its result in a module-level cache that is not
\* keyed by the parameters.
kc_equilibrium_stale(q) ==
    IF call.fn = "kc_equilibrium" THEN call.ret
    ELSE [exc |-> "none",
          ret |-> [Y_star |-> FSub(q.a, FMul(q.b2, q.i)), AD_intercept |-> q.a,
                   AD_slope |-> FAdd(q.c, q.b1)]]

\* kc_equilibrium without abs(): "if denom < 1e-9".
kc_equilibrium_noabs(q) ==
    LET denom0 == FSub(FSub(One, q.c), q.b1)
        denom == IF FLt(denom0, Eps) THEN Eps ELSE denom0
        intercept == FAdd(FSub(FAdd(FSub(q.a, FMul(q.c, q.T)), q.b0), FMul(q.b2, q.i)), q.G)
    IN  Return([Y_star |-> FDiv(intercept, denom), AD_intercept |-> intercept,
                AD_slope |-> FAdd(q.c, q.b1)])

\* kc_equilibrium without the guard of lines 36-38.
kc_equilibrium_noguard(q) ==
    LET denom == FSub(FSub(One, q.c), q.b1)
        intercept == FAdd(FSub(FAdd(FSub(q.a, FMul(q.c, q.T)), q.b0), FMul(q.b2, q.i)), q.G)
    IN  IF denom[1] = 0 THEN Raise("ZeroDivisionError")
        ELSE Return([Y_star |-> FDiv(intercept, denom), AD_intercept |-> intercept,
                     AD_slope |-> FAdd(q.c, q.b1)])

\* kc_equilibrium with the investment term added: "+ p.b2 * p.i".
kc_equilibrium_plus(q) ==
    LET denom0 == FSub(FSub(One, q.c), q.b1)
        denom == IF FLt(FAbs(denom0), Eps) THEN Eps ELSE denom0
        intercept == FAdd(FAdd(FAdd(FSub(q.a, FMul(q.c, q.T)), q.b0), FMul(q.b2, q.i)), q.G)
    IN  Return([Y_star |-> FDiv(intercept, denom), AD_intercept |-> intercept,
                AD_slope |-> FAdd(q.c, q.b1)])

\* kc_equilibrium reporting the slope of consumption alone: "AD_slope": p.c.
kc_equilibrium_slope(q) ==
    LET denom0 == FSub(FSub(One, q.c), q.b1)
        denom == IF FLt(FAbs(denom0), Eps) THEN Eps ELSE denom0
        intercept == FAdd(FSub(FAdd(FSub(q.a, FMul(q.c, q.T)), q.b0), FMul(q.b2, q.i)), q.G)
    IN  Return([Y_star |-> FDiv(intercept, denom), AD_intercept |-> intercept,
                AD_slope |-> q.c])

\* kc_equilibrium(p), lines 35-50.  Python's float division raises
\* ZeroDivisionError on a zero divisor.
kc_equilibrium(q) ==
    LET denom0 == FSub(FSub(One, q.c), q.b1)
        denom == IF FLt(FAbs(denom0), Eps) THEN Eps ELSE denom0
        intercept == FAdd(FSub(FAdd(FSub(q.a, FMul(q.c, q.T)), q.b0), FMul(q.b2, q.i)), q.G)
    IN  IF denom[1] = 0 THEN Raise("ZeroDivisionError")
        ELSE Return([Y_star |-> FDiv(intercept, denom), AD_intercept |-> intercept,
                     AD_slope |-> FAdd(q.c, q.b1)])

\* kc_locus without the guard of lines 60-61.
kc_locus_noguard(q, g) ==
    LET denom == FSub(FSub(One, q.c), q.b1)
        intercept0 == FAdd(FAdd(FSub(q.a, FMul(q.c, q.T)), q.b0), q.G)
    IN  Return([k \in 1..Len(g) |->
                   IF denom[1] = 0 THEN NonFinite
                   ELSE FDiv(FSub(intercept0, FMul(q.b2, g[k])), denom)])

\* kc_locus reading the rate of the parameters instead of the grid: "p.b2 * p.i".
kc_locus_rate(q, g) ==
    LET denom0 == FSub(FSub(One, q.c), q.b1)
        denom == IF FLt(FAbs(denom0), Eps) THEN Eps ELSE denom0
        intercept0 == FAdd(FAdd(FSub(q.a, FMul(q.c, q.T)), q.b0), q.G)
    IN  Return([k \in 1..Len(g) |-> FDiv(FSub(intercept0, FMul(q.b2, q.i)), denom)])

\* kc_locus(p, i_grid), lines 59-67: numpy evaluates the expression element
\* by element, in the order of the grid; a zero divisor gives a non-finite
\* element, not an exception.
kc_locus(q, g) ==
    LET denom0 == FSub(FSub(One, q.c), q.b1)
        denom == IF FLt(FAbs(denom0), Eps) THEN Eps ELSE denom0
        intercept0 == FAdd(FAdd(FSub(q.a, FMul(q.c, q.T)), q.b0), q.G)
    IN  Return([k \in 1..Len(g) |->
                   IF denom[1] = 0 THEN NonFinite
                   ELSE FDiv(FSub(intercept0, FMul(q.b2, g[k])), denom)])

(***************************************************************************)
(* A caller of the model module: it holds a KCParams object and a rate     *)
(* grid, and calls the two functions on them.                              *)
(***************************************************************************)
\* Longest rate grid of the caller.
MaxGrid == 2

\* Values the caller gives the fields.  c = 0.7 with b1 = 0.3 is the exactly
\* degenerate case; c = 1 with b1 = -5e-10 / 5e-10 gives a denominator of
\* 5e-10 / -5e-10, c = 1 with b1 = 0.2 a negative regular one.
Vals_a == {Lit(20, 0), Lit(1, 5)}
Vals_c == {Lit(6, -1), Lit(65, -2), Lit(7, -1), Lit(1, 0)}
Vals_T == {Lit(10, 0)}
Vals_G == {Lit(50, 0), Lit(995, 0)}
Vals_i == {Lit(0, 0), Lit(5, -1), Lit(1, 0)}
Vals_i_max == {Lit(4, 0), Lit(1, 0)}
Vals_b0 == {Lit(30, 0)}
Vals_b1 == {Lit(2, -1), Lit(3, -1), Lit(5, -10), Lit(-5, -10)}
Vals_b2 == {Lit(0, 0), Lit(10, 0)}

Params ==
    {KCParams(a, c, T, G, i, i_max, b0, b1, b2) :
        a \in Vals_a, c \in Vals_c, T \in Vals_T, G \in Vals_G, i \in Vals_i,
        i_max \in Vals_i_max, b0 \in Vals_b0, b1 \in Vals_b1, b2 \in Vals_b2}

\* Samples of the caller's rate grids.
Vals_rate == {Lit(0, 0), Lit(1, 0)}

Grids == UNION {[1..n -> Vals_rate] : n \in 0..MaxGrid}

\* No call made yet on the current arguments.
NoResult == [exc |-> "nocall", ret |-> <<>>]

NoCall == [fn |-> "none"]

\* DEFAULTS, src/app.py lines 16-27.
DEFAULTS ==
    [a |-> Lit(20, 0), c |-> Lit(6, -1), T |-> Lit(10, 0), G |-> Lit(50, 0),
     b0 |-> Lit(30, 0), b1 |-> Lit(2, -1), b2 |-> Lit(10, 0), i |-> Lit(5, -1),
     i_max |-> Lit(4, 0), Xmax |-> Lit(600, 0)]

\* The dict objects of a session: DEFAULTS is object 0, the others are
\* allocated by dict.copy().
DefaultsRef == 0

\* The session as it stands when the first script run has completed: inputs
\* is a copy of DEFAULTS, baseline is None, every widget shows its default.
SessionStart ==
    /\ heap = (DefaultsRef :> DEFAULTS) @@ (1 :> DEFAULTS)
    /\ inputs = 1
    /\ baseline = <<>>
    /\ widgets = DEFAULTS
    /\ passed = <<KCParams(DEFAULTS.a, DEFAULTS.c, DEFAULTS.T, DEFAULTS.G, DEFAULTS.i,
                            DEFAULTS.i_max, DEFAULTS.b0, DEFAULTS.b1, DEFAULTS.b2)>>
    /\ last = [event |-> "start", exc |-> "none", stop |-> 0]
    /\ captured = <<>>

InitModel ==
    /\ p \in Params
    /\ i_grid \in Grids
    /\ kc = NoResult
    /\ Y_IS = NoResult
    /\ SessionStart
    /\ call = NoCall
    /\ earlier = NoCall

\* The values the caller gives field f.
Vals(f) ==
    CASE f = "a" -> Vals_a
      [] f = "c" -> Vals_c
      [] f = "T" -> Vals_T
      [] f = "G" -> Vals_G
      [] f = "i" -> Vals_i
      [] f = "i_max" -> Vals_i_max
      [] f = "b0" -> Vals_b0
      [] f = "b1" -> Vals_b1
      [] f = "b2" -> Vals_b2

Fields == {"a", "c", "T", "G", "i", "i_max", "b0", "b1", "b2"}

\* The caller builds the KCParams that differs from p in field f (field
\* aggregation, no validation), dropping the results it held.
MakeParameters(f, v) ==
    /\ v # p[f]
    /\ p' = [p EXCEPT ![f] = v]
    /\ kc' = NoResult
    /\ Y_IS' = NoResult
    /\ UNCHANGED i_grid
    /\ UNCHANGED <<sessionVars, callVars>>

\* The caller builds the rate grid with one more sample, or one fewer.
MakeGrid(g) ==
    /\ \/ /\ Len(i_grid) < MaxGrid
          /\ \E r \in Vals_rate : g = Append(i_grid, r)
       \/ /\ Len(i_grid) > 0
          /\ g = SubSeq(i_grid, 1, Len(i_grid) - 1)
    /\ i_grid' = g
    /\ Y_IS' = NoResult
    /\ UNCHANGED <<p, kc>>
    /\ UNCHANGED <<sessionVars, callVars>>

\* kc = kc_equilibrium(params)
CallEquilibrium ==
    /\ kc' = kc_equilibrium(p)
    /\ UNCHANGED <<p, i_grid, Y_IS>>
    /\ UNCHANGED <<sessionVars, callVars>>

\* Yvals_IS = kc_locus(params, igrid)
CallLocus ==
    /\ Y_IS' = kc_locus(p, i_grid)
    /\ UNCHANGED <<p, i_grid, kc>>
    /\ UNCHANGED <<sessionVars, callVars>>

NextModel ==
    \/ \E f \in Fields : \E v \in Vals(f) : MakeParameters(f, v)
    \/ \E g \in Grids : MakeGrid(g)
    \/ CallEquilibrium
    \/ CallLocus

SpecModel == InitModel /\ [][NextModel]_vars

(***************************************************************************)
(* src/app.py: the Streamlit session.  Every user interaction runs the      *)
(* script from top to bottom against st.session_state.  A keyed widget      *)
(* keeps its value in st.session_state[key], apart from                     *)
(* st.session_state.inputs, which only supplies the widget's value=         *)
(* argument.  Which of the two a widget returns when they differ depends on *)
(* whether Streamlit takes the call for the widget of the previous run, so  *)
(* both are possible outcomes.  A slider given a value outside its range    *)
(* either widens the range to contain it or raises StreamlitAPIException; a *)
(* number_input given a value below min_value raises.                       *)
(***************************************************************************)

\* The keyed widgets in the order the script renders them, lines 52-73.
Keys == <<"a", "c", "T", "G", "b0", "b1", "b2", "i_max", "i", "Xmax">>

KeySet == {Keys[k] : k \in 1..Len(Keys)}

Sliders == {"c", "b1", "i", "Xmax"}

\* The values the user moves a widget to.
Choices(x) ==
    CASE x = "a" -> {Lit(20, 0), Lit(25, 0)}
      [] x = "c" -> {Lit(6, -1), Lit(8, -1), Lit(9, -1)}
      [] x = "b1" -> {Lit(2, -1), Lit(5, -2)}
      [] OTHER -> {DEFAULTS[x]}

\* min_value and max_value of widget x once the widgets before it have
\* returned r; a number_input has no max_value.
min_value(x, r) ==
    CASE x = "c" -> Lit(1, -2)
      [] x = "i_max" -> Lit(1, -1)
      [] x = "Xmax" -> Lit(100, 0)
      [] OTHER -> Lit(0, 0)

HasMax(x) == x \in Sliders

max_value(x, r) ==
    CASE x = "c" -> Lit(99, -2)
      [] x = "b1" -> FSub(Lit(99, -2), r["c"])
      [] x = "i" -> r["i_max"]
      [] OTHER -> Lit(1500, 0)

InRange(x, r) ==
    /\ FLe(min_value(x, r), r[x])
    /\ HasMax(x) => FLe(r[x], max_value(x, r))

\* dict.copy(): a new object with the same items.
Refs == 0..3

Fresh(h) == CHOOSE r \in Refs \ DOMAIN h : \A r2 \in Refs \ DOMAIN h : r <= r2

DictCopyAlias(h, r) == [heap |-> h, ref |-> r]

DictCopy(h, r) == [heap |-> (Fresh(h) :> h[r]) @@ h, ref |-> Fresh(h)]

\* Objects nothing refers to any more are gone.
Collect(h, inp, bl) ==
    [r \in {DefaultsRef, inp} \cup {bl[k] : k \in 1..Len(bl)} |-> h[r]]

\* KCParams(a=..., c=..., ...) of lines 92 and 124 from an inputs dict.
ParamsOf(d) == KCParams(d.a, d.c, d.T, d.G, d.i, d.i_max, d.b0, d.b1, d.b2)

\* dict.update(): the items of r replace or extend those of d.
Update(d, r) ==
    [x \in (DOMAIN d) \cup (DOMAIN r) |-> IF x \in DOMAIN r THEN r[x] ELSE d[x]]

\* What the ten widget calls of one script run can return in session s: each
\* widget whose stored value differs from its value= argument returns either.
Returned(s) ==
    LET vp == s.heap[s.inputs]
        Differ == {x \in KeySet : s.widgets[x] # vp[x]}
    IN  {[x \in KeySet |-> IF x \in K THEN vp[x] ELSE s.widgets[x]] : K \in SUBSET Differ}

\* The ways the widget calls can end: stop = 0 when all ten returned, else
\* the position of the widget that raised.  Sliders before it that were out
\* of range have widened their range.
Rendered(s) ==
    UNION {
        LET Bad == {k \in 1..Len(Keys) : ~InRange(Keys[k], r)}
        IN  {[ret |-> r, stop |-> 0] : z \in IF \A k \in Bad : Keys[k] \in Sliders THEN {0} ELSE {}}
            \cup {[ret |-> r, stop |-> k] :
                    k \in {b \in Bad : \A j \in Bad : j < b => Keys[j] \in Sliders}}
        : r \in Returned(s)}

\* The KCParams the model calculations of lines 92-148 are given: params and,
\* when a baseline is set, p_b.
Passed(h, ret, bl) ==
    <<ParamsOf(ret)>> \o [k \in 1..Len(bl) |-> ParamsOf(h[bl[k]])]

\* One run of the script in session s; ev is the button clicked in the
\* browser ("none" when the run was caused by a widget or by st.rerun()).
\* The result carries the exception that ended the run, if any.
Script(s, ev) ==
    {   LET h0 == (DefaultsRef :> DEFAULTS) @@ s.heap
        IN  IF o.stop # 0
            THEN [heap |-> h0, inputs |-> s.inputs, baseline |-> s.baseline,
                  widgets |-> [x \in KeySet |->
                      IF \E k \in 1..(o.stop - 1) : Keys[k] = x THEN o.ret[x] ELSE s.widgets[x]],
                  passed |-> <<>>, exc |-> "StreamlitAPIException", stop |-> o.stop,
                  captured |-> s.captured]
            ELSE IF ev = "Reset All"
            THEN \* reset_all(), lines 35-39: st.rerun() ends the run
                 LET cp == DictCopy(h0, DefaultsRef)
                 IN  [heap |-> Collect(cp.heap, cp.ref, <<>>), inputs |-> cp.ref,
                      baseline |-> <<>>, widgets |-> o.ret, passed |-> <<>>,
                      exc |-> "RerunException", stop |-> 0, captured |-> <<>>]
            ELSE LET cp == IF ev = "Capture baseline" THEN DictCopy(h0, s.inputs)
                           ELSE [heap |-> h0, ref |-> s.inputs]
                     bl == IF ev = "Capture baseline" THEN <<cp.ref>> ELSE s.baseline
                     h1 == [cp.heap EXCEPT ![s.inputs] = Update(@, o.ret)]
                 IN  [heap |-> Collect(h1, s.inputs, bl), inputs |-> s.inputs,
                      baseline |-> bl, widgets |-> o.ret, passed |-> Passed(h1, o.ret, bl),
                      exc |-> "none", stop |-> 0,
                      captured |-> IF ev = "Capture baseline" THEN <<h0[s.inputs]>>
                                   ELSE s.captured]
        : o \in Rendered(s)}

Session ==
    [heap |-> heap, inputs |-> inputs, baseline |-> baseline, widgets |-> widgets,
     passed |-> passed, exc |-> last.exc, stop |-> last.stop, captured |-> captured]

Becomes(s, ev) ==
    /\ heap' = s.heap
    /\ inputs' = s.inputs
    /\ baseline' = s.baseline
    /\ widgets' = s.widgets
    /\ passed' = s.passed
    /\ captured' = s.captured
    /\ last' = [event |-> ev, exc |-> s.exc, stop |-> s.stop]

\* Widget x is on the page after the last run.
OnPage(x) == last.stop = 0 \/ \E k \in 1..(last.stop - 1) : Keys[k] = x

\* The user moves widget x to v, within the range the widget has on the page.
ChangeWidget(x, v) ==
    /\ OnPage(x)
    /\ v # widgets[x]
    /\ \/ InRange(x, [widgets EXCEPT ![x] = v])
       \/ x \in Sliders /\ FLe(min_value(x, widgets), v) /\ FLe(v, widgets[x])
    /\ \E s \in Script([Session EXCEPT !.widgets[x] = v], "none") : Becomes(s, "change")
    /\ UNCHANGED <<modelVars, callVars>>

\* The user clicks "Capture baseline", lines 79-81.
CaptureBaseline ==
    /\ last.stop = 0
    /\ \E s \in Script(Session, "Capture baseline") : Becomes(s, "capture")
    /\ UNCHANGED <<modelVars, callVars>>

\* The user clicks "Reset All", lines 83-84, and the rerun that reset_all
\* asks for follows.
ResetAll ==
    /\ last.stop = 0
    /\ \E s1 \in Script(Session, "Reset All") :
          IF s1.exc = "RerunException"
          THEN \E s2 \in Script(s1, "none") : Becomes(s2, "reset")
          ELSE Becomes(s1, "reset")
    /\ UNCHANGED <<modelVars, callVars>>

Init ==
    /\ SessionStart
    /\ call = NoCall
    /\ earlier = NoCall
    /\ p = ParamsOf(DEFAULTS)
    /\ i_grid = <<>>
    /\ kc = NoResult
    /\ Y_IS = NoResult

Next ==
    \/ \E x \in KeySet : \E v \in Choices(x) : ChangeWidget(x, v)
    \/ CaptureBaseline
    \/ ResetAll

Spec == Init /\ [][Next]_vars

(***************************************************************************)
(* The functions of src/models.py as calls: each call is given the caller's *)
(* objects, assigns no attribute of p and no element of i_grid (NumPy's     *)
(* p.b2 * i_grid builds a new array), reads nothing but its arguments and   *)
(* returns a new dict or array.  The callers are lines 94, 125, 136 and 146 *)
(* of src/app.py, on the current and on the baseline parameters.            *)
(***************************************************************************)
ParamsPure ==
    {ParamsOf(DEFAULTS), [ParamsOf(DEFAULTS) EXCEPT !.c = Lit(8, -1)],
     [ParamsOf(DEFAULTS) EXCEPT !.i = Lit(1, 0)]}

\* np.linspace(0, n - 1, n) for n up to MaxGrid.
GridsPure == {[k \in 1..n |-> Lit(k - 1, 0)] : n \in 0..MaxGrid}

InitPure ==
    /\ SessionStart
    /\ p = ParamsOf(DEFAULTS)
    /\ i_grid = <<>>
    /\ kc = NoResult
    /\ Y_IS = NoResult
    /\ call = NoCall
    /\ earlier = NoCall

\* The caller turns to other parameters or another grid.
PickParameters(q) ==
    /\ q # p
    /\ p' = q
    /\ UNCHANGED <<i_grid, kc, Y_IS, sessionVars, callVars>>

PickGrid(g) ==
    /\ g # i_grid
    /\ i_grid' = g
    /\ UNCHANGED <<p, kc, Y_IS, sessionVars, callVars>>

\* History: the functions called since the remembered call, and whether one
\* of these calls was on other parameters.
Since(e, fn, q) ==
    IF e = NoCall THEN e
    ELSE [e EXCEPT !.since = @ \cup {fn}, !.other = @ \/ q # e.p]

Invoke_kc_equilibrium ==
    /\ UNCHANGED <<p, i_grid>>
    /\ call' = [fn |-> "kc_equilibrium", p |-> p, i_grid |-> <<>>,
                p_after |-> p', i_grid_after |-> <<>>, ret |-> kc_equilibrium(p)]
    /\ earlier' = Since(earlier, "kc_equilibrium", p)
    /\ UNCHANGED <<kc, Y_IS, sessionVars>>

Invoke_kc_locus ==
    /\ UNCHANGED <<p, i_grid>>
    /\ call' = [fn |-> "kc_locus", p |-> p, i_grid |-> i_grid,
                p_after |-> p', i_grid_after |-> i_grid', ret |-> kc_locus(p, i_grid)]
    /\ earlier' = Since(earlier, "kc_locus", p)
    /\ UNCHANGED <<kc, Y_IS, sessionVars>>

\* History: the call just made is the one later calls are compared with.
Remember ==
    /\ call # NoCall
    /\ earlier' = [fn |-> call.fn, p |-> call.p, i_grid |-> call.i_grid, ret |-> call.ret,
                   since |-> {}, other |-> FALSE]
    /\ UNCHANGED <<modelVars, sessionVars, call>>

NextPure ==
    \/ \E q \in ParamsPure : PickParameters(q)
    \/ \E g \in GridsPure : PickGrid(g)
    \/ Invoke_kc_equilibrium
    \/ Invoke_kc_locus
    \/ Remember

SpecPure == InitPure /\ [][NextPure]_vars

(***************************************************************************)
(* Vocabulary of the claims about the model module.                        *)
(***************************************************************************)
\* 1 - c - b1 as the functions compute it, before any substitution.
TrueDenom(q) == FSub(FSub(One, q.c), q.b1)

\* |1 - c - b1| < 1e-9: the degenerate denominator.
Degenerate(q) == FLt(FAbs(TrueDenom(q)), Eps)

\* a - c*T + b0 - b2*r + G, summed left to right.
Intercept(q, r) ==
    FAdd(FSub(FAdd(FSub(q.a, FMul(q.c, q.T)), q.b0), FMul(q.b2, r)), q.G)

\* a - c*T + b0 + G - b2*r, summed left to right.
LocusIntercept(q, r) ==
    FSub(FAdd(FAdd(FSub(q.a, FMul(q.c, q.T)), q.b0), q.G), FMul(q.b2, r))

\* |a| + |c*T| + |b0| + |b2*r| + |G|: the size of the terms of the intercept.
TermSize(q, r) ==
    FAdd(FAdd(FAdd(FAdd(FAbs(q.a), FAbs(FMul(q.c, q.T))), FAbs(q.b0)),
              FAbs(FMul(q.b2, r))), FAbs(q.G))

\* Eight unit roundoffs: the unit roundoff of a Prec-digit format is
\* 10^(1-Prec) / 2 (2^-53 for binary64).
Tol == Lit(4, 1 - Prec)

\* The parameters of the specification's worked example, for any i_max.
IsExample(q) ==
    /\ q.a = Lit(20, 0) /\ q.c = Lit(6, -1) /\ q.T = Lit(10, 0) /\ q.G = Lit(50, 0)
    /\ q.b0 = Lit(30, 0) /\ q.b1 = Lit(2, -1) /\ q.b2 = Lit(10, 0)

Called(r) == r.exc # "nocall"

\* C1: with |1 - c - b1| >= 1e-9, kc_equilibrium returns
\* Y_star = (a - c*T + b0 - b2*i + G) / (1 - c - b1); the example gives 445.
C1_EquilibriumFormula ==
    (Called(kc) /\ ~Degenerate(p)) =>
        /\ kc.exc = "none"
        /\ kc.ret.Y_star = FDiv(Intercept(p, p.i), TrueDenom(p))
        /\ (IsExample(p) /\ p.i = Lit(5, -1)) => kc.ret.Y_star = Lit(445, 0)

C1_Witness ==
    /\ IsExample(p) /\ p.i = Lit(5, -1)
    /\ kc.exc = "none"
    /\ kc.ret.Y_star = Lit(445, 0)

\* C2: with |1 - c - b1| < 1e-9 (zero, small positive or small negative),
\* neither function raises and both divide by +1e-9; the divisor used is
\* never zero, for any parameters.
C2_DegenerateEpsilon ==
    /\ Called(kc) => kc.exc = "none"
    /\ Called(Y_IS) =>
          /\ Y_IS.exc = "none"
          /\ \A k \in DOMAIN Y_IS.ret : Y_IS.ret[k] # NonFinite
    /\ (Degenerate(p) /\ Called(kc)) =>
          kc.ret.Y_star = FDiv(Intercept(p, p.i), Eps)
    /\ (Degenerate(p) /\ Called(Y_IS)) =>
          \A k \in DOMAIN Y_IS.ret :
              Y_IS.ret[k] = FDiv(LocusIntercept(p, i_grid[k]), Eps)

C2_Witness ==
    /\ TrueDenom(p)[1] < 0
    /\ Degenerate(p)
    /\ kc.exc = "none"
    /\ kc.ret.Y_star = FDiv(Intercept(p, p.i), Eps)
    /\ kc.ret.Y_star[1] > 0
    /\ Y_IS.exc = "none"
    /\ Len(Y_IS.ret) = MaxGrid

\* C3 as claimed: each locus value equals the Y_star of the solver at that rate.
C3_LocusEqualsSolver ==
    Called(Y_IS) =>
        \A k \in DOMAIN Y_IS.ret :
            Y_IS.ret[k] = kc_equilibrium([p EXCEPT !.i = i_grid[k]]).ret.Y_star

\* C3: each locus value agrees with the Y_star of the solver at that rate up
\* to rounding, |Y_k - Y_star| * |denom| <= 8u * (|a|+|c*T|+|b0|+|b2*r|+|G|),
\* in the regular and in the degenerate case (the two sum the intercept in
\* different orders), and the locus depends neither on p.i nor on p.i_max.
C3_LocusNearSolver ==
    Called(Y_IS) =>
        /\ Y_IS.exc = "none"
        /\ \A k \in DOMAIN Y_IS.ret :
              LET s == kc_equilibrium([p EXCEPT !.i = i_grid[k]])
                  d == IF Degenerate(p) THEN Eps ELSE TrueDenom(p)
              IN  /\ s.exc = "none"
                  /\ Y_IS.ret[k] # NonFinite
                  /\ FLe(FMul(FAbs(FSub(Y_IS.ret[k], s.ret.Y_star)), FAbs(d)),
                         FMul(Tol, TermSize(p, i_grid[k])))
        /\ \A r \in Vals_i : \A m \in Vals_i_max :
              kc_locus([p EXCEPT !.i = r, !.i_max = m], i_grid) = Y_IS

\* A locus value that differs from the solver's Y_star, within the tolerance.
C3_Witness ==
    /\ Y_IS.exc = "none"
    /\ Len(i_grid) > 0
    /\ i_grid[1] = p.i
    /\ kc.exc = "none"
    /\ Y_IS.ret[1] # kc.ret.Y_star
    /\ FLe(FMul(FAbs(FSub(Y_IS.ret[1], kc.ret.Y_star)), FAbs(TrueDenom(p))),
           FMul(Tol, TermSize(p, p.i)))

\* C4: kc_locus returns, without raising, a sequence as long as the grid whose
\* k-th element is (a - c*T + b0 + G - b2*grid[k]) / denom, for grids of
\* length 0, 1 and more; the example with the grid [0, 1] gives [470, 420].
C4_LocusShape ==
    Called(Y_IS) =>
        /\ Y_IS.exc = "none"
        /\ DOMAIN Y_IS.ret = 1..Len(i_grid)
        /\ \A k \in 1..Len(i_grid) :
              Y_IS.ret[k] = FDiv(LocusIntercept(p, i_grid[k]),
                                 IF Degenerate(p) THEN Eps ELSE TrueDenom(p))
        /\ (IsExample(p) /\ i_grid = <<Lit(0, 0), Lit(1, 0)>>) =>
              Y_IS.ret = <<Lit(470, 0), Lit(420, 0)>>

C4_Witness ==
    /\ IsExample(p)
    /\ i_grid = <<Lit(0, 0), Lit(1, 0)>>
    /\ Y_IS = Return(<<Lit(470, 0), Lit(420, 0)>>)

C4_WitnessEmpty ==
    /\ i_grid = <<>>
    /\ Y_IS = Return(<<>>)

\* b2 > 0 and 1 - c - b1 > 0.
Stable(q) == q.b2[1] > 0 /\ TrueDenom(q)[1] > 0

StrictlyIncreasing(g) == \A k \in 1..(Len(g) - 1) : FLt(g[k], g[k + 1])

\* C5 as claimed: a higher rate gives a strictly lower Y_star, and a strictly
\* increasing grid a strictly decreasing locus.
C5_StrictlyDecreasing ==
    Stable(p) =>
        /\ Called(kc) =>
              \A r \in Vals_i :
                  FLt(p.i, r) =>
                      FLt(kc_equilibrium([p EXCEPT !.i = r]).ret.Y_star, kc.ret.Y_star)
        /\ (Called(Y_IS) /\ StrictlyIncreasing(i_grid)) =>
              \A k \in 1..(Len(i_grid) - 1) : FLt(Y_IS.ret[k + 1], Y_IS.ret[k])

\* C5: a higher rate never gives a higher Y_star (also with 0 < denom < 1e-9),
\* and a strictly increasing grid gives a non-increasing locus.
C5_NonIncreasing ==
    Stable(p) =>
        /\ Called(kc) =>
              \A r \in Vals_i :
                  FLt(p.i, r) =>
                      FLe(kc_equilibrium([p EXCEPT !.i = r]).ret.Y_star, kc.ret.Y_star)
        /\ (Called(Y_IS) /\ StrictlyIncreasing(i_grid)) =>
              \A k \in 1..(Len(i_grid) - 1) : FLe(Y_IS.ret[k + 1], Y_IS.ret[k])

\* The epsilon case: 0 < denom < 1e-9, a strictly lower Y_star at a higher rate.
C5_Witness ==
    /\ Stable(p)
    /\ Degenerate(p)
    /\ kc.exc = "none"
    /\ \E r \in Vals_i :
          /\ FLt(p.i, r)
          /\ FLt(kc_equilibrium([p EXCEPT !.i = r]).ret.Y_star, kc.ret.Y_star)
    /\ Y_IS.exc = "none"
    /\ Len(i_grid) = MaxGrid
    /\ StrictlyIncreasing(i_grid)

\* Y_star = AD_intercept + AD_slope * Y_star, evaluated in floats.
FixedPoint(r) == r.Y_star = FAdd(r.AD_intercept, FMul(r.AD_slope, r.Y_star))

\* C10 as claimed: AD_slope = c + b1, AD_intercept = a - c*T + b0 - b2*i + G,
\* and with |1 - c - b1| >= 1e-9 Y_star is exactly a fixed point.
C10_ExactFixedPoint ==
    Called(kc) =>
        /\ kc.exc = "none"
        /\ kc.ret.AD_slope = FAdd(p.c, p.b1)
        /\ kc.ret.AD_intercept = Intercept(p, p.i)
        /\ ~Degenerate(p) => FixedPoint(kc.ret)

\* C10: AD_slope = c + b1 and AD_intercept = a - c*T + b0 - b2*i + G, the
\* unsubstituted values also in the epsilon case, and with
\* |1 - c - b1| >= 1e-9 Y_star is a fixed point of aggregate demand up to
\* rounding: |Y_star - (AD_intercept + AD_slope * Y_star)|
\*               <= 8u * (1 + |c| + |b1|) * |Y_star|.
C10_FixedPointNear ==
    Called(kc) =>
        /\ kc.exc = "none"
        /\ kc.ret.AD_slope = FAdd(p.c, p.b1)
        /\ kc.ret.AD_intercept = Intercept(p, p.i)
        /\ ~Degenerate(p) =>
              FLe(FAbs(FSub(kc.ret.Y_star,
                            FAdd(kc.ret.AD_intercept,
                                 FMul(kc.ret.AD_slope, kc.ret.Y_star)))),
                  FMul(FMul(Tol, FAdd(FAdd(One, FAbs(p.c)), FAbs(p.b1))),
                       FAbs(kc.ret.Y_star)))

\* A regular equilibrium that is a fixed point only up to rounding.
C10_Witness ==
    /\ kc.exc = "none"
    /\ ~Degenerate(p)
    /\ ~FixedPoint(kc.ret)
    /\ kc.ret.AD_slope = FAdd(p.c, p.b1)
    /\ FLe(FAbs(FSub(kc.ret.Y_star,
                     FAdd(kc.ret.AD_intercept, FMul(kc.ret.AD_slope, kc.ret.Y_star)))),
           FMul(Tol, FAbs(kc.ret.Y_star)))

\* The script ran to its end in the last interaction.
Completed == last.exc = "none"

\* C7: the baseline is None or an independent copy of the complete inputs as
\* they stood at the most recent capture; script runs and widget changes
\* leave it as it was, and a completed Reset All leaves None.
C7_BaselineLifecycle ==
    /\ (baseline = <<>>) <=> (captured = <<>>)
    /\ baseline # <<>> =>
        /\ baseline[1] \in DOMAIN heap
        /\ baseline[1] \notin {inputs, DefaultsRef}
        /\ heap[baseline[1]] = captured[1]
        /\ DOMAIN heap[baseline[1]] = KeySet
        /\ Completed => passed[Len(passed)] = ParamsOf(captured[1])
    /\ (last.event = "reset" /\ Completed) => baseline = <<>>

\* C7 happens: a baseline was captured and the inputs have changed since.
C7_Witness ==
    /\ baseline # <<>>
    /\ last.event = "change"
    /\ Completed
    /\ heap[inputs] # heap[baseline[1]]
    /\ heap[baseline[1]] = captured[1]

\* C8 as claimed: once Reset All and its rerun have completed, the inputs are
\* DEFAULTS, the baseline is None, the model is given DEFAULTS, and DEFAULTS
\* is what it was.
C8_ResetRestoresDefaults ==
    (last.event = "reset" /\ Completed) =>
        /\ heap[inputs] = DEFAULTS
        /\ baseline = <<>>
        /\ passed = <<ParamsOf(DEFAULTS)>>
        /\ heap[DefaultsRef] = DEFAULTS

\* C9 as claimed: every KCParams the UI passes to the model has
\* 1 - c - b1 >= 0.01, so c + b1 < 1 and the denominator is not degenerate.
C9_UIStability ==
    \A k \in 1..Len(passed) :
        /\ FLe(Lit(1, -2), TrueDenom(passed[k]))
        /\ FLt(FAdd(passed[k].c, passed[k].b1), One)
        /\ ~Degenerate(passed[k])

SameCall(x, y) == x.fn = y.fn /\ x.p = y.p /\ x.i_grid = y.i_grid

====
